---- MODULE Spec2Model ----
(***************************************************************************)
(* The session-scoped real-time synchronisation engine of the chat client: *)
(* the useChat hook (frontend/src/hooks/useChat.ts) together with the two  *)
(* components that drive it, App and ChatInterface.                         *)
(*                                                                         *)
(* Scheduling.  JavaScript is single threaded: every event callback (a     *)
(* user action, the arrival of a push frame, the settling of a request)    *)
(* runs to completion, and React commits the state it set and runs the     *)
(* effects whose dependencies changed before the next event is handled.    *)
(* One action of the model is therefore one callback followed by the       *)
(* render/effect rounds it causes (the operator Settle).  An await         *)
(* suspends a function: the part after the await is a separate action,     *)
(* fired when the awaited request settles.                                 *)
(***************************************************************************)
EXTENDS Integers, Sequences, FiniteSets, TLC

\* ------------------------------------------------------------------ bounds
NumInitialSessions == 1 \* sessions that exist before the client starts
MsgsPerSession == 2     \* messages the backend holds per session
MaxLog == 2             \* longest message log explored
MaxSends == 2           \* calls of sendMessage explored
MaxFetches == 2         \* GET /sessions/{id} requests in flight at once
Epoch == 1000           \* first value Date.now() can return

\* Every call of sendMessage creates at most one session.
MaxSessions == NumInitialSessions + MaxSends

\* ------------------------------------------------------------------ values
undefined == "undefined"
null == [null |-> TRUE]
OPEN == "OPEN"
CLOSED == "CLOSED"

\* JavaScript truthiness of a string | undefined value.
Truthy(x) == x \notin {undefined, ""}

SessionIdOf(n) == "s" \o ToString(n)
SessionIds == {SessionIdOf(n) : n \in 1..MaxSessions}
SessionIndex(sid) == CHOOSE n \in 1..MaxSessions : SessionIdOf(n) = sid

\* Message contents are sequences of characters, so that trim() is computed.
Contents == {<<>>, <<" ">>, <<"h", "i">>}

\* The calls sendMessage(content, fileUrl, fileName) explored.
SendInputs ==
    {<<c, undefined, undefined>> : c \in Contents}
    \cup {<<<<" ">>, "http://x/doc.pdf", "doc.pdf">>}

RECURSIVE trimStart(_)
trimStart(s) == IF s # <<>> /\ Head(s) = " " THEN trimStart(Tail(s)) ELSE s

RECURSIVE trimEnd(_)
trimEnd(s) ==
    IF s # <<>> /\ s[Len(s)] = " " THEN trimEnd(SubSeq(s, 1, Len(s) - 1)) ELSE s

\* Mutant of trim: nothing is stripped.
trimNothing(s) == s

\* String.prototype.trim
trim(s) == trimEnd(trimStart(s))

\* ------------------------------------------------------------------ backend
\* The k-th message the backend stores for the n-th session.  Identifiers are
\* the auto-incrementing primary key of the message table; user messages carry
\* no usage facts, assistant messages do.  Variant 2 is the same message as the
\* backend may push it again later, with its content changed and with usage
\* facts attached (interface Message allows them on a message of either
\* sender); the first message of a session is the one explored in both
\* variants.
ServerMessage(n, k, v) ==
    LET base == [id |-> (n - 1) * MsgsPerSession + k,
                 content |-> IF v = 1 THEN <<"v", "1">> ELSE <<"v", "2">>,
                 sender |-> IF k % 2 = 1 THEN "user" ELSE "assistant",
                 timestamp |-> MsgsPerSession - k]
    IN IF k % 2 = 1 /\ v = 1 THEN base
       ELSE base @@ [token_count |-> 10 * k, cost |-> k, carbon_footprint |-> k]

\* What m.id reads on a payload that has no id property: the value undefined,
\* which equals no number and equals itself.  It is written as a number no
\* identifier takes, so that it can be compared with the identifiers.
NoId == 0 - 1

\* A payload that lacks an identifier.
PayloadWithoutId ==
    [id |-> NoId, content |-> <<"v", "1">>, sender |-> "assistant", timestamp |-> 0]

\* What GET /sessions/{id} can answer: the messages stored so far, in order.
StoredLog(sid, len) == [k \in 1..len |-> ServerMessage(SessionIndex(sid), k, 1)]

\* A frame is what arrives as event.data: json tells whether it is JSON text,
\* type is the type property of the value it decodes to (undefined when there
\* is none), payload its payload property when it has one.
\* The frames the backend can push on the channel of a session: the message
\* envelopes, and an envelope of another type.
Frames(sid) ==
    {[json |-> TRUE, type |-> "message",
      payload |-> ServerMessage(SessionIndex(sid), k, 1)] : k \in 1..MsgsPerSession}
    \cup {[json |-> TRUE, type |-> "message",
           payload |-> ServerMessage(SessionIndex(sid), 1, 2)],
          [json |-> TRUE, type |-> "update",
           payload |-> ServerMessage(SessionIndex(sid), MsgsPerSession, 1)]}

\* The malformed frames a channel can deliver: text that is not JSON, a
\* message envelope without payload, and a message envelope whose payload has
\* no identifier.
MalformedFrames ==
    {[json |-> FALSE, type |-> undefined],
     [json |-> TRUE, type |-> "message"],
     [json |-> TRUE, type |-> "message", payload |-> PayloadWithoutId]}

\* ------------------------------------------------------------------ state
VARIABLES
    sessionId,          \* App: useState<string | undefined>()
    metrics,            \* App: useState({totalTokens, totalCost, totalCarbon})
    messages,           \* useChat: useState<Message[]>([])
    isLoading,          \* useChat: useState(false)
    currentSessionId,   \* useChat: useState(sessionId)
    wsRef,              \* useChat: useRef<WebSocket | null>(null), its .current
    channels,           \* the WebSocket objects that are open, per session id
    fetches,            \* GET /sessions/{id} requests in flight, per session id
    sends,              \* the calls of sendMessage, in call order
    now,                \* the last value Date.now() returned
    serverSessions,     \* how many sessions the backend holds
    mounted,            \* whether the component using useChat is mounted
    ev                  \* the callback the last step ran, with its input

vars == <<sessionId, metrics, messages, isLoading, currentSessionId, wsRef,
          channels, fetches, sends, now, serverSessions, mounted, ev>>

\* The client state as one record, so that the functions of the hook are
\* operators from state to state.
S == [sessionId |-> sessionId, metrics |-> metrics, messages |-> messages,
      isLoading |-> isLoading, currentSessionId |-> currentSessionId,
      wsRef |-> wsRef, channels |-> channels, fetches |-> fetches]

RECURSIVE SumOver(_, _)
SumOver(f, D) ==
    IF D = {} THEN 0
    ELSE LET d == CHOOSE d \in D : TRUE IN f[d] + SumOver(f, D \ {d})

Total(bag) == SumOver(bag, DOMAIN bag)

HasId(log, id) == \E i \in 1..Len(log) : log[i].id = id

\* ------------------------------------------------------------------ useChat
\* Mutant of closeCurrent: the socket held is taken to be open.
closeCurrentUnguarded(st) ==
    IF st.wsRef # null
    THEN [st EXCEPT !.wsRef.readyState = CLOSED,
                    !.channels[st.wsRef.sid] = @ - 1]
    ELSE st

\* if (wsRef.current) wsRef.current.close();  close() on a socket that is
\* already closed does nothing.  wsRef.current keeps pointing at the socket.
closeCurrent(st) ==
    IF st.wsRef # null /\ st.wsRef.readyState = OPEN
    THEN [st EXCEPT !.wsRef.readyState = CLOSED,
                    !.channels[st.wsRef.sid] = @ - 1]
    ELSE st

\* Mutant of connectWebSocket: the socket held is not closed.
connectWebSocketNoClose(st, sid) ==
    [st EXCEPT !.wsRef = [sid |-> sid, readyState |-> OPEN],
               !.channels[sid] = @ + 1]

\* connectWebSocket(sid): close the socket held, open one for sid, hold it.
connectWebSocket(st, sid) ==
    LET c == closeCurrent(st)
    IN [c EXCEPT !.wsRef = [sid |-> sid, readyState |-> OPEN],
                 !.channels[sid] = @ + 1]

\* loadSession(sid) up to its await: the GET request is issued.
loadSession(st, sid) == [st EXCEPT !.fetches[sid] = @ + 1]

\* Mutant of appendOptimistic: the entry is put at the head.
prependOptimistic(log, msg) == <<msg>> \o log

\* setMessages(prev => [...prev, tempMsg])
appendOptimistic(log, msg) == Append(log, msg)

\* Mutant of ingest: "update or add", the last writer wins.
ingestUpsert(log, payload) ==
    IF \E i \in 1..Len(log) : log[i].id = payload.id
    THEN [i \in 1..Len(log) |-> IF log[i].id = payload.id THEN payload ELSE log[i]]
    ELSE Append(log, payload)

\* Mutant of ingest: a message the log does not hold is put at the head.
ingestAtHead(log, payload) ==
    IF \E i \in 1..Len(log) : log[i].id = payload.id
    THEN log
    ELSE <<payload>> \o log

\* Mutant of ingest: a duplicate moves the entry kept to the tail.
ingestMoveToTail(log, payload) ==
    IF \E i \in 1..Len(log) : log[i].id = payload.id
    THEN SelectSeq(log, LAMBDA m : m.id # payload.id)
         \o SelectSeq(log, LAMBDA m : m.id = payload.id)
    ELSE Append(log, payload)

\* The updater of ws.onmessage: first arrival wins, otherwise append at the tail.
ingest(log, payload) ==
    IF \E i \in 1..Len(log) : log[i].id = payload.id
    THEN log
    ELSE Append(log, payload)

\* Mutant of onmessage: the type of the envelope is not looked at.
onmessageAnyType(log, frame) ==
    IF "payload" \in DOMAIN frame THEN ingest(log, frame.payload) ELSE log

\* ws.onmessage after JSON.parse, for a frame whose updater does not throw:
\* the log the handler asks for.
onmessage(log, frame) ==
    IF frame.type = "message" THEN ingest(log, frame.payload) ELSE log

\* Mutant of replaceAll: the fetched messages are merged into the log.
replaceAllMerge(log, msgs) ==
    msgs \o SelectSeq(log, LAMBDA m : \A i \in 1..Len(msgs) : msgs[i].id # m.id)

\* setMessages(res.data.messages)
replaceAll(log, msgs) == msgs

\* The optimistic entry of sendMessage; t is the value Date.now() returned.
tempMsg(content, fileUrl, fileName, t) ==
    [id |-> t, content |-> content, sender |-> "user", timestamp |-> t,
     file_url |-> fileUrl, file_name |-> fileName]

\* endpoints of api/client.ts
messagesEndpoint(sid) == <<"sessions", sid, "messages">>
messagesWithRagEndpoint(sid) == <<"sessions", sid, "messages", "with-rag">>

\* Mutant of postRequest: the plain endpoint is used for every send.
postRequestPlainOnly(sid, content, fileUrl, fileName) ==
    [url |-> messagesEndpoint(sid),
     body |-> [content |-> content, sender |-> "user"]]

\* The creation request sendMessage issues inside its try block.
postRequest(sid, content, fileUrl, fileName) ==
    IF Truthy(fileUrl)
    THEN [url |-> messagesWithRagEndpoint(sid),
          body |-> [content |-> content, sender |-> "user",
                    file_url |-> fileUrl, file_name |-> fileName]]
    ELSE [url |-> messagesEndpoint(sid),
          body |-> [content |-> content, sender |-> "user"]]

\* sendMessage from setIsLoading(true) to the issue of the creation request.
sendOptimistic(st, content, fileUrl, fileName, t) ==
    [st EXCEPT !.isLoading = TRUE,
               !.messages = appendOptimistic(@, tempMsg(content, fileUrl, fileName, t))]

\* Whether the updater of ws.onmessage throws on the decoded frame: reading
\* data.payload.id of a message envelope that has no payload is a TypeError.
UpdaterThrows(frame) ==
    frame.json /\ frame.type = "message" /\ "payload" \notin DOMAIN frame

\* Mutant of sendFinally: the flag is not cleared.
sendFinallyMissing(st) == st

\* finally { setIsLoading(false) }
sendFinally(st) == [st EXCEPT !.isLoading = FALSE]

\* Mutant of sendCatch: the optimistic update is reverted.
sendCatchRevert(st, tempId) ==
    [st EXCEPT !.messages = SelectSeq(@, LAMBDA m : m.id # tempId)]

\* catch (error) { console.error(...) } of sendMessage: the optimistic entry,
\* whose id is tempId, is not reverted.
sendCatch(st, tempId) == st

\* ------------------------------------------------------------------ effects
\* msg.token_count || 0, and the like
OrZero(msg, field) == IF field \in DOMAIN msg THEN msg[field] ELSE 0

RECURSIVE reduce(_, _)
reduce(log, field) ==
    IF log = <<>> THEN 0 ELSE OrZero(Head(log), field) + reduce(Tail(log), field)

\* ChatInterface, the effect on [messages, onMetricsUpdate]
computeMetrics(log) ==
    [totalTokens |-> reduce(log, "token_count"),
     totalCost |-> reduce(log, "cost"),
     totalCarbon |-> reduce(log, "carbon_footprint")]

ZeroMetrics == [totalTokens |-> 0, totalCost |-> 0, totalCarbon |-> 0]

\* useChat, the effect on [sessionId]: the cleanup of the previous run, then
\* the body.  prev is the state the previous render committed.
useChatEffect(prev, st) ==
    IF st.sessionId = prev.sessionId THEN st
    ELSE LET cleaned == closeCurrent(st)
         IN IF Truthy(st.sessionId)
            THEN connectWebSocket(loadSession(cleaned, st.sessionId), st.sessionId)
            ELSE cleaned

\* Mutant of metricsEffect: the totals are patched with the last entry.
metricsEffectPatch(st, messagesChanged) ==
    IF messagesChanged /\ st.messages # <<>>
    THEN LET last == st.messages[Len(st.messages)]
         IN [st EXCEPT !.metrics =
                [totalTokens |-> @.totalTokens + OrZero(last, "token_count"),
                 totalCost |-> @.totalCost + OrZero(last, "cost"),
                 totalCarbon |-> @.totalCarbon + OrZero(last, "carbon_footprint")]]
    ELSE st

metricsEffect(st, messagesChanged) ==
    IF messagesChanged THEN [st EXCEPT !.metrics = computeMetrics(st.messages)] ELSE st

\* ChatInterface, the effect on [currentSessionId, sessionId, onSessionCreate];
\* rendered is the state of the render the effect belongs to.
sessionSyncEffect(prev, rendered, st) ==
    IF /\ (rendered.currentSessionId # prev.currentSessionId
              \/ rendered.sessionId # prev.sessionId)
       /\ Truthy(rendered.currentSessionId)
       /\ rendered.currentSessionId # rendered.sessionId
    THEN [st EXCEPT !.sessionId = rendered.currentSessionId]
    ELSE st

\* The render of state st after a callback, and the renders its effects
\* cause, until no effect changes the state any more.
RECURSIVE Settle(_, _, _)
Settle(prev, st, messagesChanged) ==
    LET e1 == useChatEffect(prev, st)
        e2 == metricsEffect(e1, messagesChanged)
        e3 == sessionSyncEffect(prev, st, e2)
    IN IF e3.sessionId = st.sessionId THEN e3 ELSE Settle(st, e3, FALSE)

\* ------------------------------------------------------------------ steps
NoRequest == [none |-> TRUE]
createSessionRequest == [url |-> <<"sessions">>, body |-> [title |-> "New Chat"]]

\* A call of sendMessage that got past its first check: where it stands (pc),
\* its arguments, its local sid, the id of its optimistic entry (0 before the
\* append) and the request it is awaiting.  A call that returned keeps nothing.
Call(pc, content, fileUrl, fileName, sid, tempId, request) ==
    [pc |-> pc, content |-> content, fileUrl |-> fileUrl, fileName |-> fileName,
     sid |-> sid, tempId |-> tempId, request |-> request]

Returned == Call("returned", <<>>, undefined, undefined, undefined, 0, NoRequest)

\* Date.now().  The clock does not run backwards, and two reads within the same
\* millisecond return the same value: a read returns the value of the read
\* before it or a later one.  Only the equality of two values matters, so the
\* first read returns Epoch and a later value is the next one.
DateNow == IF now < Epoch THEN {Epoch} ELSE {now, now + 1}

\* The state after a callback left the client in st.  A mounted component is
\* rendered and its effects run; on an unmounted one the state setters do
\* nothing, and only what the callback did to the socket and the network stays.
Commit(st, messagesChanged) ==
    \E fin \in {IF mounted THEN Settle(S, st, messagesChanged)
                ELSE [S EXCEPT !.wsRef = st.wsRef, !.channels = st.channels,
                               !.fetches = st.fetches]} :
       /\ Len(fin.messages) <= MaxLog
       /\ Total(fin.fetches) <= MaxFetches
       /\ sessionId' = fin.sessionId
       /\ metrics' = fin.metrics
       /\ messages' = fin.messages
       /\ isLoading' = fin.isLoading
       /\ currentSessionId' = fin.currentSessionId
       /\ wsRef' = fin.wsRef
       /\ channels' = fin.channels
       /\ fetches' = fin.fetches

\* Layout: onSessionSelect={setSessionId}
SelectSession(sid) ==
    /\ mounted
    /\ SessionIndex(sid) <= serverSessions
    /\ sid # sessionId
    /\ Commit([S EXCEPT !.sessionId = sid], FALSE)
    /\ ev' = [op |-> "onSessionSelect", sid |-> sid]
    /\ UNCHANGED <<sends, now, serverSessions, mounted>>

\* Mutant of NewChat: the metrics are not reset.
NewChatNoReset ==
    /\ mounted
    /\ Commit([S EXCEPT !.sessionId = undefined], FALSE)
    /\ ev' = [op |-> "onNewChat"]
    /\ UNCHANGED <<sends, now, serverSessions, mounted>>

\* App: onNewChat
NewChat ==
    /\ mounted
    /\ Commit([S EXCEPT !.sessionId = undefined, !.metrics = ZeroMetrics], FALSE)
    /\ ev' = [op |-> "onNewChat"]
    /\ UNCHANGED <<sends, now, serverSessions, mounted>>

\* sendMessage(content, fileUrl, fileName), up to its first await.
SendMessage(content, fileUrl, fileName) ==
    /\ mounted
    /\ Len(sends) < MaxSends
    /\ ev' = [op |-> "sendMessage", content |-> content, fileUrl |-> fileUrl,
               fileName |-> fileName]
    /\ UNCHANGED <<serverSessions, mounted>>
    /\ IF trim(content) = <<>> /\ ~Truthy(fileUrl)
       THEN /\ sends' = sends
            /\ Commit(S, FALSE)
            /\ now' = now
       ELSE IF ~Truthy(currentSessionId)
       THEN /\ sends' = Append(sends, Call("createSession", content, fileUrl, fileName,
                                           undefined, 0, createSessionRequest))
            /\ Commit(S, FALSE)
            /\ now' = now
       ELSE \E t \in DateNow :
            /\ sends' = Append(sends,
                  Call("post", content, fileUrl, fileName, currentSessionId, t,
                       postRequest(currentSessionId, content, fileUrl, fileName)))
            /\ Commit(sendOptimistic(S, content, fileUrl, fileName, t), TRUE)
            /\ now' = t

\* POST /sessions answers: createSession after its await, then sendMessage
\* from line 69 to its second await.
CreateSessionResolved(i) ==
    /\ i \in 1..Len(sends)
    /\ sends[i].pc = "createSession"
    /\ LET id == SessionIdOf(serverSessions + 1)
           c == sends[i]
           created == connectWebSocket([S EXCEPT !.currentSessionId = id], id)
       IN \E t \in DateNow :
            /\ sends' = [sends EXCEPT ![i] =
                  Call("post", c.content, c.fileUrl, c.fileName, id, t,
                       postRequest(id, c.content, c.fileUrl, c.fileName))]
            /\ Commit(sendOptimistic(created, c.content, c.fileUrl, c.fileName, t), TRUE)
            /\ now' = t
    /\ serverSessions' = serverSessions + 1
    /\ ev' = [op |-> "createSessionResolved", call |-> i]
    /\ UNCHANGED mounted

\* Mutant of CreateSessionRejected: sendMessage does not check the sid that
\* createSession returned and goes on with undefined.
CreateSessionRejectedUnchecked(i) ==
    /\ i \in 1..Len(sends)
    /\ sends[i].pc = "createSession"
    /\ LET c == sends[i]
       IN \E t \in DateNow :
            /\ sends' = [sends EXCEPT ![i] =
                  Call("post", c.content, c.fileUrl, c.fileName, undefined, t,
                       postRequest(undefined, c.content, c.fileUrl, c.fileName))]
            /\ Commit(sendOptimistic(S, c.content, c.fileUrl, c.fileName, t), TRUE)
            /\ now' = t
    /\ ev' = [op |-> "createSessionRejected", call |-> i]
    /\ UNCHANGED <<serverSessions, mounted>>

\* POST /sessions fails: createSession returns undefined, sendMessage returns.
CreateSessionRejected(i) ==
    /\ i \in 1..Len(sends)
    /\ sends[i].pc = "createSession"
    /\ sends' = [sends EXCEPT ![i] = Returned]
    /\ Commit(S, FALSE)
    /\ ev' = [op |-> "createSessionRejected", call |-> i]
    /\ UNCHANGED <<now, serverSessions, mounted>>

\* The creation request succeeds: finally.
PostResolved(i) ==
    /\ i \in 1..Len(sends)
    /\ sends[i].pc = "post"
    /\ sends' = [sends EXCEPT ![i] = Returned]
    /\ Commit(sendFinally(S), FALSE)
    /\ ev' = [op |-> "postResolved", call |-> i]
    /\ UNCHANGED <<now, serverSessions, mounted>>

\* The creation request fails: catch, then finally.
PostRejected(i) ==
    /\ i \in 1..Len(sends)
    /\ sends[i].pc = "post"
    /\ sends' = [sends EXCEPT ![i] = Returned]
    /\ Commit(sendFinally(sendCatch(S, sends[i].tempId)), FALSE)
    /\ ev' = [op |-> "postRejected", call |-> i, tempId |-> sends[i].tempId]
    /\ UNCHANGED <<now, serverSessions, mounted>>

\* GET /sessions/{sid} answers with the len messages stored: loadSession
\* after its await.
LoadSessionResolved(sid, len) ==
    /\ fetches[sid] > 0
    /\ Commit([S EXCEPT !.fetches[sid] = @ - 1,
                        !.messages = replaceAll(@, StoredLog(sid, len)),
                        !.currentSessionId = sid], TRUE)
    /\ ev' = [op |-> "loadSessionResolved", sid |-> sid, len |-> len]
    /\ UNCHANGED <<sends, now, serverSessions, mounted>>

\* GET /sessions/{sid} fails: the catch of loadSession logs the error.
LoadSessionRejected(sid) ==
    /\ fetches[sid] > 0
    /\ Commit([S EXCEPT !.fetches[sid] = @ - 1], FALSE)
    /\ ev' = [op |-> "loadSessionRejected", sid |-> sid]
    /\ UNCHANGED <<sends, now, serverSessions, mounted>>

\* React unmounts the components: the cleanup of the effect runs, and React
\* drops their state (the variables take their initial values and keep
\* them).  The ref, the sockets and the requests in flight live on.
UnmountComponents ==
    /\ mounted' = FALSE
    /\ LET st == closeCurrent(S)
       IN /\ wsRef' = st.wsRef
          /\ channels' = st.channels
    /\ sessionId' = undefined
    /\ metrics' = ZeroMetrics
    /\ messages' = <<>>
    /\ isLoading' = FALSE
    /\ currentSessionId' = undefined
    /\ fetches' = fetches

\* ws.onmessage of a socket for session sid.  The browser fires message
\* events on open sockets only: after close() none is delivered.
\* JSON.parse throws on text that is not JSON: the handler ends there, and the
\* error goes to the console.  An updater that throws does so when React runs
\* it, in the render of ChatInterface: no component catches the error, so
\* React unmounts the components.  On an unmounted component setMessages does
\* nothing and the updater is not run.
WsMessage(sid, frame) ==
    /\ channels[sid] > 0
    /\ IF ~frame.json
       THEN Commit(S, FALSE) /\ mounted' = mounted
       ELSE IF UpdaterThrows(frame)
       THEN IF mounted THEN UnmountComponents
            ELSE Commit(S, FALSE) /\ mounted' = mounted
       ELSE LET log == onmessage(messages, frame)
            IN Commit([S EXCEPT !.messages = log], log # messages)
               /\ mounted' = mounted
    /\ ev' = [op |-> "onmessage", sid |-> sid, frame |-> frame]
    /\ UNCHANGED <<sends, now, serverSessions>>

\* The application unmounts.
Unmount ==
    /\ mounted
    /\ UnmountComponents
    /\ ev' = [op |-> "unmount"]
    /\ UNCHANGED <<sends, now, serverSessions>>

\* The state after the first render: no session selected, nothing loaded.
Init ==
    /\ sessionId = undefined
    /\ metrics = ZeroMetrics
    /\ messages = <<>>
    /\ isLoading = FALSE
    /\ currentSessionId = undefined
    /\ wsRef = null
    /\ channels = [sid \in SessionIds |-> 0]
    /\ fetches = [sid \in SessionIds |-> 0]
    /\ sends = <<>>
    /\ now = Epoch - 1
    /\ serverSessions = NumInitialSessions
    /\ mounted = TRUE
    /\ ev = [op |-> "mount"]

Next ==
    \/ \E sid \in SessionIds : SelectSession(sid)
    \/ NewChat
    \/ \E a \in SendInputs : SendMessage(a[1], a[2], a[3])
    \/ \E i \in 1..MaxSends : CreateSessionResolved(i)
    \/ \E i \in 1..MaxSends : CreateSessionRejected(i)
    \/ \E i \in 1..MaxSends : PostResolved(i)
    \/ \E i \in 1..MaxSends : PostRejected(i)
    \/ \E sid \in SessionIds, len \in 0..MsgsPerSession : LoadSessionResolved(sid, len)
    \/ \E sid \in SessionIds : LoadSessionRejected(sid)
    \/ \E sid \in SessionIds : \E frame \in Frames(sid) : WsMessage(sid, frame)
    \/ Unmount

Spec == Init /\ [][Next]_vars

\* The client on a channel that also delivers malformed frames: a session is
\* selected, its fetch settles, and frames of every kind arrive.
NextMalformed ==
    \/ \E sid \in SessionIds : SelectSession(sid)
    \/ \E sid \in SessionIds, len \in 0..MsgsPerSession : LoadSessionResolved(sid, len)
    \/ \E sid \in SessionIds : LoadSessionRejected(sid)
    \/ \E sid \in SessionIds :
          \E frame \in Frames(sid) \cup MalformedFrames : WsMessage(sid, frame)

SpecMalformed == Init /\ [][NextMalformed]_vars

\* The state after the first render, against a backend that holds MaxSessions
\* sessions of earlier runs.
InitSessionsStored ==
    /\ sessionId = undefined
    /\ metrics = ZeroMetrics
    /\ messages = <<>>
    /\ isLoading = FALSE
    /\ currentSessionId = undefined
    /\ wsRef = null
    /\ channels = [sid \in SessionIds |-> 0]
    /\ fetches = [sid \in SessionIds |-> 0]
    /\ sends = <<>>
    /\ now = Epoch - 1
    /\ serverSessions = MaxSessions
    /\ mounted = TRUE
    /\ ev = [op |-> "mount"]

\* The user selects a session when nothing is in flight, every fetch is
\* answered with success, and the open channel delivers frames.
NextSelect ==
    \/ \E sid \in SessionIds : Total(fetches) = 0 /\ SelectSession(sid)
    \/ \E sid \in SessionIds, len \in 0..MsgsPerSession : LoadSessionResolved(sid, len)
    \/ \E sid \in SessionIds : \E frame \in Frames(sid) : WsMessage(sid, frame)

\* The network answers every request: a fetch in flight for a session is
\* answered at some time.
FetchesAnswered ==
    \A sid \in SessionIds :
        WF_vars(\E len \in 0..MsgsPerSession : LoadSessionResolved(sid, len))

SpecSelect == InitSessionsStored /\ [][NextSelect]_vars /\ FetchesAnswered

\* ------------------------------------------------------------------ types
TypeOK ==
    /\ sessionId \in SessionIds \cup {undefined}
    /\ currentSessionId \in SessionIds \cup {undefined}
    /\ isLoading \in BOOLEAN
    /\ mounted \in BOOLEAN
    /\ Len(messages) <= MaxLog
    /\ Len(sends) <= MaxSends
    /\ \A sid \in SessionIds : channels[sid] >= 0 /\ fetches[sid] >= 0
    /\ now \in (Epoch - 1)..(Epoch + MaxSends)
    /\ serverSessions \in NumInitialSessions..MaxSessions

\* ------------------------------------------------------------------ helpers of the properties
\* Every entry of old is in new, at the index it had.
KeepsPositions(old, new) ==
    /\ Len(old) <= Len(new)
    /\ \A i \in 1..Len(old) : new[i] = old[i]

IsBlank(content) == \A i \in 1..Len(content) : content[i] = " "

OpenChannels == Total(channels)

AwaitingPost == {i \in 1..Len(sends) : sends[i].pc = "post"}

\* ------------------------------------------------------------------ C1
\* C1: after any sequence of optimistic appends and ingests, no two entries of
\* the message log have the same identifier.
C1_UniqueIdentifiers ==
    \A i, j \in 1..Len(messages) : i # j => messages[i].id # messages[j].id

C3_OrderStability ==
    [][ev'.op \in {"onmessage", "sendMessage", "createSessionResolved"}
       => KeepsPositions(messages, messages')]_vars

\* The log holds two identifiers and a duplicate of the first has just arrived.
C3_Witness ==
    /\ ev.op = "onmessage"
    /\ ev.frame.type = "message"
    /\ Len(messages) >= 2
    /\ messages[1].id = ev.frame.payload.id
    /\ messages[2].id # messages[1].id

\* ------------------------------------------------------------------ C4
\* C4: in every reachable state at most one push channel is open.
C4_AtMostOneOpenChannel == OpenChannels <= 1

\* A channel for one session is open while the fetch that was issued with the
\* bind to another session is still in flight: the engine has been rebound.
C4_Witness ==
    /\ mounted
    /\ OpenChannels = 1
    /\ wsRef # null
    /\ wsRef.readyState = OPEN
    /\ \E sid \in SessionIds : sid # wsRef.sid /\ fetches[sid] > 0

\* ------------------------------------------------------------------ C5
\* C5: rebind exclusivity.  The only channel that is open is the one bound last
\* (the one wsRef holds), addressed to the session of that bind; and a frame
\* that changes the log was delivered on that channel, never on the channel of
\* an earlier bind.
C5_OnlyLastBoundOpen ==
    \A sid \in SessionIds :
        channels[sid] > 0 =>
            /\ channels[sid] = 1
            /\ wsRef # null
            /\ wsRef.readyState = OPEN
            /\ wsRef.sid = sid

C5_RebindExclusivity ==
    /\ []C5_OnlyLastBoundOpen
    /\ [][(ev'.op = "onmessage" /\ messages' # messages)
          => (wsRef # null /\ wsRef.readyState = OPEN /\ wsRef.sid = ev'.sid)]_vars

\* The engine was bound to one session (the fetch issued with that bind is
\* still in flight), then to another, and a frame delivered on the channel of
\* the latter has just been appended to the log.
C5_Witness ==
    /\ ev.op = "onmessage"
    /\ ev.frame.type = "message"
    /\ mounted
    /\ wsRef # null
    /\ wsRef.readyState = OPEN
    /\ wsRef.sid = ev.sid
    /\ messages # <<>>
    /\ messages[Len(messages)] = ev.frame.payload
    /\ \E sid \in SessionIds : sid # ev.sid /\ fetches[sid] > 0

\* ------------------------------------------------------------------ C6
\* C6: a send that needs a session mutates nothing before the session exists,
\* and nothing at all when the session-creation request fails: the log, the
\* busy flag, the bound session id, the selected session id, the channel and
\* the requests of the other calls are as before, and the call returns without
\* a message-creation request.
ClientUnchanged ==
    UNCHANGED <<sessionId, metrics, messages, isLoading, currentSessionId,
                wsRef, channels, fetches>>

C6_Rejected ==
    ev'.op = "createSessionRejected"
    => /\ ClientUnchanged
       /\ sends' = [sends EXCEPT ![ev'.call] = Returned]

C6_BeforeSession ==
    (/\ ev'.op = "sendMessage"
     /\ Len(sends') = Len(sends) + 1
     /\ sends'[Len(sends')].pc = "createSession")
    => /\ ClientUnchanged
       /\ sends'[Len(sends')].request = createSessionRequest
       /\ sends'[Len(sends')].tempId = 0

C6_SessionCreationFailure == [][C6_Rejected /\ C6_BeforeSession]_vars

\* A session-creation request has just failed and its call has returned.
C6_Witness ==
    /\ ev.op = "createSessionRejected"
    /\ mounted
    /\ sends[ev.call] = Returned

\* ------------------------------------------------------------------ C7
\* C7: a send with non-empty content and no attachment, issued while no session
\* is bound, first issues the session-creation request and touches neither the
\* log nor the channel; when that request succeeds, the channel is bound to the
\* returned id, one entry with sender "user" and the content given is appended
\* at the tail of the log, and one creation request is issued to the plain
\* endpoint of the new session with the body {content, sender: "user"}.
C7_Start ==
    (/\ ev'.op = "sendMessage"
     /\ ~IsBlank(ev'.content)
     /\ ~Truthy(ev'.fileUrl)
     /\ ~Truthy(currentSessionId))
    => /\ sends' = Append(sends, Call("createSession", ev'.content, ev'.fileUrl,
                                      ev'.fileName, undefined, 0, createSessionRequest))
       /\ messages' = messages
       /\ wsRef' = wsRef
       /\ channels' = channels

C7_Continue ==
    (/\ ev'.op = "createSessionResolved"
     /\ mounted
     /\ ~IsBlank(sends[ev'.call].content)
     /\ ~Truthy(sends[ev'.call].fileUrl))
    => LET c == sends[ev'.call]
           id == SessionIdOf(serverSessions + 1)
       IN /\ currentSessionId' = id
          /\ wsRef' = [sid |-> id, readyState |-> OPEN]
          /\ channels'[id] = 1
          /\ Len(messages') = Len(messages) + 1
          /\ KeepsPositions(messages, messages')
          /\ messages'[Len(messages')].sender = "user"
          /\ messages'[Len(messages')].content = c.content
          /\ sends'[ev'.call].pc = "post"
          /\ sends'[ev'.call].request =
                [url |-> <<"sessions", id, "messages">>,
                 body |-> [content |-> c.content, sender |-> "user"]]
          /\ \A j \in 1..Len(sends) : j # ev'.call => sends'[j] = sends[j]

C7_LazySessionThenSend == [][C7_Start /\ C7_Continue]_vars

\* The session-creation request of a send of "hi" has just succeeded.
C7_Witness ==
    /\ ev.op = "createSessionResolved"
    /\ mounted
    /\ messages # <<>>
    /\ messages[Len(messages)].content = <<"h", "i">>
    /\ sends[ev.call].pc = "post"
    /\ sends[ev.call].request.url = <<"sessions", currentSessionId, "messages">>

\* ------------------------------------------------------------------ C8
\* C8: when the creation request of a send fails, the log is left as it is (the
\* optimistic entry is not rolled back), the call returns without issuing
\* another request, and the busy flag is cleared.
C8_FailedSendKeepsEntry ==
    [][(ev'.op = "postRejected" /\ mounted)
       => /\ messages' = messages
          /\ isLoading' = FALSE
          /\ sends' = [sends EXCEPT ![ev'.call] = Returned]
          /\ fetches' = fetches]_vars

\* A creation request has just failed and its optimistic entry is in the log.
C8_Witness ==
    /\ ev.op = "postRejected"
    /\ mounted
    /\ HasId(messages, ev.tempId)
    /\ sends[ev.call] = Returned
    /\ ~isLoading

\* ------------------------------------------------------------------ C9
\* C9: the busy flag is true in the state in which a call has just issued its
\* creation request, and false in the state in which a creation request has
\* just settled, by success or by failure; so whenever no creation request is
\* outstanding the flag is false.
IssuesPost ==
    \E i \in 1..Len(sends') :
        /\ sends'[i].pc = "post"
        /\ (i > Len(sends) \/ sends[i].pc # "post")

C9_FlagFollowsRequest ==
    [][mounted' =>
          /\ (IssuesPost => isLoading' = TRUE)
          /\ (ev'.op \in {"postResolved", "postRejected"} => isLoading' = FALSE)]_vars

C9_FlagClearWhenSettled == (mounted /\ AwaitingPost = {}) => ~isLoading

C9_BusyFlag == []C9_FlagClearWhenSettled /\ C9_FlagFollowsRequest

\* A creation request has just succeeded, none is left, and the flag is false.
C9_Witness ==
    /\ ev.op = "postResolved"
    /\ mounted
    /\ AwaitingPost = {}
    /\ ~isLoading

\* ------------------------------------------------------------------ C10
\* C10: a send whose content is empty or whitespace only and that has no
\* attachment changes nothing: no entry is appended, no request of any kind is
\* issued, and the busy flag, the bound session id and the channel are as
\* before.
C10_BlankSendIsNoOp ==
    [][(/\ ev'.op = "sendMessage"
        /\ IsBlank(ev'.content)
        /\ ~Truthy(ev'.fileUrl))
       => /\ ClientUnchanged
          /\ UNCHANGED <<sends, now, serverSessions>>]_vars

\* A send of " " with no attachment has just returned.
C10_Witness ==
    /\ ev.op = "sendMessage"
    /\ ev.content = <<" ">>
    /\ ~Truthy(ev.fileUrl)

\* ------------------------------------------------------------------ C11
\* C11: attachment routing.  The creation request a send is awaiting goes to
\* /sessions/{id}/messages/with-rag when the send has an attachment url and to
\* /sessions/{id}/messages when it has none, for the session id the send
\* holds; and a send issues one creation request only: while it awaits the
\* request nothing is issued in its place, and when the request settles the
\* call returns.
C11_Routed ==
    \A i \in 1..Len(sends) :
        sends[i].pc = "post" =>
            sends[i].request.url =
                IF sends[i].fileUrl \in {undefined, ""}
                THEN <<"sessions", sends[i].sid, "messages">>
                ELSE <<"sessions", sends[i].sid, "messages", "with-rag">>

C11_OneRequestPerSend ==
    \A i \in 1..Len(sends) :
        sends[i].pc = "post" => sends'[i] \in {sends[i], Returned}

C11_AttachmentRouting == []C11_Routed /\ [][C11_OneRequestPerSend]_vars

\* A send with an attachment and a send without one both await their creation
\* request, each at its endpoint.
C11_Witness ==
    \E i, j \in 1..Len(sends) :
        /\ sends[i].pc = "post"
        /\ sends[j].pc = "post"
        /\ sends[i].fileUrl = "http://x/doc.pdf"
        /\ sends[i].request.url[Len(sends[i].request.url)] = "with-rag"
        /\ sends[j].fileUrl = undefined
        /\ sends[j].request.url[Len(sends[j].request.url)] = "messages"

\* ------------------------------------------------------------------ C12
\* The sum of a usage field over the entries of a log whose sender is in
\* senders, an absent value counting as zero.
RECURSIVE UsageSum(_, _, _)
UsageSum(log, field, senders) ==
    IF log = <<>> THEN 0
    ELSE (IF Head(log).sender \in senders /\ field \in DOMAIN Head(log)
          THEN Head(log)[field] ELSE 0)
         + UsageSum(Tail(log), field, senders)

UsageTotals(log, senders) ==
    [totalTokens |-> UsageSum(log, "token_count", senders),
     totalCost |-> UsageSum(log, "cost", senders),
     totalCarbon |-> UsageSum(log, "carbon_footprint", senders)]

\* C12: the metrics snapshot that follows a change of the log holds the sums
\* of token_count, cost and carbon_footprint over the entries with sender
\* "assistant" only; an entry with sender "user" adds nothing, whatever usage
\* fields it carries.
C12_AssistantOnly ==
    [][(mounted' /\ messages' # messages)
       => metrics' = UsageTotals(messages', {"assistant"})]_vars

\* ------------------------------------------------------------------ C13
\* C13: after every change of the log (an optimistic append, the ingest of a
\* new message, a session load) the metrics snapshot App holds is the sum over
\* the entire log as it is now, whatever the snapshot was before.
C13_RecomputedFromFullLog ==
    [][(mounted' /\ (messages' # messages \/ ev'.op = "loadSessionResolved"))
       => metrics' = UsageTotals(messages', {"user", "assistant"})]_vars

\* A session load has just put a log with usage facts in the place of a log
\* that held an optimistic entry: the snapshot is that of the new log.
C13_Witness ==
    /\ ev.op = "loadSessionResolved"
    /\ mounted
    /\ messages # <<>>
    /\ metrics.totalTokens > 0
    /\ metrics = UsageTotals(messages, {"user", "assistant"})
    /\ \E i \in 1..Len(sends) :
         sends[i].pc = "post" /\ ~HasId(messages, sends[i].tempId)

\* ------------------------------------------------------------------ C14
\* C14: onNewChat leaves the metrics snapshot at
\* {totalTokens: 0, totalCost: 0, totalCarbon: 0}.
C14_NewChatResetsMetrics ==
    [][ev'.op = "onNewChat"
       => metrics' = [totalTokens |-> 0, totalCost |-> 0, totalCarbon |-> 0]]_vars

\* New Chat has just been chosen while the log holds usage facts.
C14_Witness ==
    /\ ev.op = "onNewChat"
    /\ UsageSum(messages, "token_count", {"user", "assistant"}) > 0
    /\ metrics.totalTokens = 0

\* ------------------------------------------------------------------ C15
\* C15: a frame that decodes to an envelope whose type is not "message" leaves
\* the log, the busy flag, the bound session id and the channel as they are.
C15_OtherTypesIgnored ==
    [][(ev'.op = "onmessage" /\ ev'.frame.json /\ ev'.frame.type # "message")
       => UNCHANGED <<messages, isLoading, currentSessionId, wsRef, channels>>]_vars

\* An envelope of another type has just arrived whose payload is a message the
\* log does not hold.
C15_Witness ==
    /\ ev.op = "onmessage"
    /\ ev.frame.type = "update"
    /\ mounted
    /\ channels[ev.sid] = 1
    /\ ~HasId(messages, ev.frame.payload.id)

\* ------------------------------------------------------------------ C16
\* C16: a malformed frame (text that is not JSON, a message envelope without
\* payload, a message envelope whose payload has no identifier) is dropped:
\* the log is unchanged, the channel stays open and the consumer goes on
\* handling the frames that follow.
C16_MalformedDropped ==
    [][(ev'.op = "onmessage" /\ ev'.frame \in MalformedFrames)
       => /\ messages' = messages
          /\ wsRef' = wsRef
          /\ channels' = channels
          /\ mounted' = mounted]_vars

\* ------------------------------------------------------------------ C17
\* C17: when a session fetch succeeds the log becomes the fetched sequence, in
\* the fetched order: no entry that was in the log before is kept or merged.
C17_ReplaceAllAtLoad ==
    [][(ev'.op = "loadSessionResolved" /\ mounted)
       => messages' = [k \in 1..ev'.len |->
                          ServerMessage(SessionIndex(ev'.sid), k, 1)]]_vars

\* A session fetch has just succeeded while a send awaits its creation
\* request: the optimistic entry of that send is not in the log any more.
C17_Witness ==
    /\ ev.op = "loadSessionResolved"
    /\ mounted
    /\ Len(messages) = ev.len
    /\ ev.len > 0
    /\ \E i \in 1..Len(sends) :
         sends[i].pc = "post" /\ ~HasId(messages, sends[i].tempId)

\* ------------------------------------------------------------------ C18
\* C18: once the consumer is unmounted no channel is open, also after a
\* session-creation or session-load request that was in flight completes.
C18_NoChannelAfterUnmount == ~mounted => OpenChannels = 0

\* ------------------------------------------------------------------ C19
\* C19: the teardown of the channel is idempotent.  In every reachable state,
\* running it a second time changes nothing the first run left, running it
\* with no socket held changes nothing at all, and after it no channel is
\* open.
C19_UnbindIdempotent ==
    LET once == closeCurrent(S)
    IN /\ closeCurrent(once) = once
       /\ (wsRef = null => once = S)
       /\ (once.wsRef # null => once.wsRef.readyState = CLOSED)
       /\ \A sid \in SessionIds : once.channels[sid] = 0

\* The teardown has run on a socket that was bound: the socket held is closed.
C19_Witness ==
    /\ wsRef # null
    /\ wsRef.readyState = CLOSED
    /\ OpenChannels = 0

\* ------------------------------------------------------------------ C20
\* C20: when the fetch of the selected session fails while the log shows the
\* messages of the session loaded before (entries with the identifiers the
\* backend assigned), the log is empty afterwards: it does not keep showing
\* those messages.
C20_FailedLoadLeavesEmpty ==
    [][(/\ ev'.op = "loadSessionRejected"
        /\ mounted
        /\ ev'.sid = sessionId
        /\ currentSessionId # undefined
        /\ \E i \in 1..Len(messages) : messages[i].id < Epoch)
       => messages' = <<>>]_vars

\* ------------------------------------------------------------------ C21
\* Whether an entry is an optimistic one: its identifier was read from the
\* clock, the backend assigns the small ones.
IsOptimistic(m) == m.id >= Epoch

\* C21: push frames are ingested in delivery order, one at a time.  A
\* "message" frame whose identifier the log does not hold is appended at the
\* tail of the log as it is when the frame arrives, behind the messages of the
\* frames before it and behind the optimistic entries appended in between; and
\* an optimistic append leaves every entry at its index.
C21_FrameAppendedAtTail ==
    (/\ ev'.op = "onmessage"
     /\ mounted
     /\ ev'.frame.type = "message"
     /\ ~HasId(messages, ev'.frame.payload.id))
    => messages' = Append(messages, ev'.frame.payload)

C21_PushOrder ==
    /\ [][C21_FrameAppendedAtTail]_vars
    /\ [][ev'.op \in {"sendMessage", "createSessionResolved"}
          => KeepsPositions(messages, messages')]_vars

\* A frame has just been appended behind an optimistic entry.
C21_Witness ==
    /\ ev.op = "onmessage"
    /\ mounted
    /\ Len(messages) = 2
    /\ IsOptimistic(messages[1])
    /\ messages[2] = ev.frame.payload

\* ------------------------------------------------------------------ C22
\* Whether m is the message the backend confirms for call c of sendMessage:
\* the content and the sender of the request, under an identifier the backend
\* assigned.
IsConfirmationOf(m, c) ==
    /\ ~IsOptimistic(m)
    /\ m.content = c.content
    /\ m.sender = "user"

\* C22: when a message-creation request succeeds, the message its response
\* confirms is passed to ingest; so the log after the response holds the
\* confirmed message, appended at the tail by this step or held from before.
C22_ConfirmedCreationIngested ==
    [][(ev'.op = "postResolved" /\ mounted)
       => \E k \in 1..Len(messages') :
             IsConfirmationOf(messages'[k], sends[ev'.call])]_vars

\* ------------------------------------------------------------------ C23
\* No session fetch and no session-creation request is outstanding.
Quiescent ==
    /\ Total(fetches) = 0
    /\ \A i \in 1..Len(sends) : sends[i].pc # "createSession"

\* The session a message with a backend identifier is stored in.
SessionOfMessage(m) == SessionIdOf(((m.id - 1) \div MsgsPerSession) + 1)

\* The session the open channel is addressed to, undefined when none is open.
ChannelSession ==
    IF wsRef # null /\ wsRef.readyState = OPEN THEN wsRef.sid ELSE undefined

\* The selected session, the session sends are addressed to, the session of
\* the open channel and the session of the stored messages shown coincide.
SessionsCoincide ==
    /\ currentSessionId = sessionId
    /\ ChannelSession = sessionId
    /\ \A i \in 1..Len(messages) :
          ~IsOptimistic(messages[i]) => SessionOfMessage(messages[i]) = sessionId

C23_QuiescentConsistent == (mounted /\ Quiescent) => SessionsCoincide

\* The answer to a fetch of a session other than the one the engine is bound
\* to leaves the log and the session sends are addressed to as they are.
C23_LateResponseIgnored ==
    (/\ ev'.op = "loadSessionResolved"
     /\ mounted
     /\ Truthy(sessionId)
     /\ ChannelSession = sessionId
     /\ ev'.sid # sessionId)
    => /\ messages' = messages
       /\ currentSessionId' = currentSessionId

\* C23: session consistency.  Whenever no session fetch and no
\* session-creation request is outstanding, the selected session id,
\* currentSessionId, the session of the open channel and the session whose
\* messages a load installed last coincide; and the answer to a fetch of
\* session A that arrives after the engine was rebound to session B does not
\* install the log of A and does not make sends target A.
C23_SessionConsistency ==
    /\ []C23_QuiescentConsistent
    /\ [][C23_LateResponseIgnored]_vars

\* ------------------------------------------------------------------ C24
\* The user has just selected session b while another session was loaded and
\* nothing was in flight: the selection has issued its fetches.
JustSelectedOther(b) ==
    /\ ev.op = "onSessionSelect"
    /\ ev.sid = b
    /\ Truthy(currentSessionId)
    /\ currentSessionId # b
    /\ fetches[b] = 1
    /\ Total(fetches) = 1 + fetches[currentSessionId]
    /\ fetches[currentSessionId] <= 1

\* Everything is session b and nothing is in flight.
StableAt(b) ==
    /\ Quiescent
    /\ sessionId = b
    /\ currentSessionId = b
    /\ ChannelSession = b

\* C24: session selection stabilises.  Once the user has selected session B
\* while session A was loaded, and selects nothing after it, the system comes
\* to a state in which the selected id, currentSessionId and the channel are B
\* and nothing is in flight, and stays there: the effect of useChat and the
\* sync effect of ChatInterface do not switch the selection for ever.
C24_SelectionStabilises ==
    \A b \in SessionIds :
        [](JustSelectedOther(b)
           => (\/ <>[]StableAt(b)
               \/ <>(ev.op # "onSessionSelect" /\ <>(ev.op = "onSessionSelect"))))

\* ------------------------------------------------------------------ C25
\* C25: an optimistic entry stays in the log as long as the user does not
\* select another session or start a new conversation.  Every step that is
\* not one of these two user actions (nor the unmount of the consumer) keeps
\* every optimistic entry of the log; in particular the answer to the fetch
\* that follows a lazy session creation keeps the entry of that send.
C25_OptimisticEntryStays ==
    [][(mounted /\ ev'.op \notin {"onSessionSelect", "onNewChat", "unmount"})
       => \A i \in 1..Len(messages) :
             IsOptimistic(messages[i]) => HasId(messages', messages[i].id)]_vars

\* ------------------------------------------------------------------ C26
\* C26: the busy flag is true in every state in which at least one
\* message-creation request is outstanding, also when sends overlap: the
\* settling of one request does not clear the flag while another request is
\* in flight.
C26_BusyWhileAnyOutstanding == (mounted /\ AwaitingPost # {}) => isLoading

\* ------------------------------------------------------------------ C27
\* The calls of sendMessage that await the answer to their session-creation
\* request.
AwaitingCreateSession == {i \in 1..Len(sends) : sends[i].pc = "createSession"}

\* C27: lazy session creation happens at most once per session-less context.
\* When two sends are issued while no session is bound and the creation
\* request of the first has not settled, at most one session-creation request
\* is in flight; and the client, whose only session-less context is the one it
\* starts in, creates at most one session, so both messages are posted to it.
C27_LazyCreationOnce ==
    /\ Cardinality(AwaitingCreateSession) <= 1
    /\ serverSessions <= NumInitialSessions + 1

\* ------------------------------------------------------------------ C28
\* C28: after onNewChat with session A loaded the engine is session-less.
\* The selected id is undefined and is not set back to A, no channel is open,
\* the log holds no stored message of A, and no session is bound for the next
\* send, which therefore requests the creation of a session.
C28_NewChatIsSessionLess ==
    [][(/\ ev'.op = "onNewChat"
        /\ Truthy(sessionId)
        /\ currentSessionId = sessionId)
       => /\ sessionId' = undefined
          /\ Total(channels') = 0
          /\ ~Truthy(currentSessionId')
          /\ \A i \in 1..Len(messages') :
                ~IsOptimistic(messages'[i])
                   => SessionOfMessage(messages'[i]) # sessionId]_vars
====
